---- MODULE Spec2Model ----
(***************************************************************************)
(* NVIDIA Tegra platform support of Xen/ARM (xen/arch/arm/platforms/       *)
(* tegra.c): the legacy interrupt controller (ictlr) enable state and the  *)
(* two routing hooks that keep it consistent with the GIC binding.         *)
(*                                                                         *)
(* A 32-bit register value is modelled as the set of its bit positions     *)
(* that hold 1 (a subset of 0..31): BIT(n) is {n}, ~0 is 0..31, 0 is {}.   *)
(* Register writes are modelled by byte offset from the mapped base, and   *)
(* decoded by the hardware model into instance and register.               *)
(***************************************************************************)
EXTENDS Integers, Naturals, Sequences, FiniteSets, TLC

(***************************************************************************)
(* Platform constants (asm/platforms/tegra.h, asm/irq.h).                  *)
(***************************************************************************)
\* first interrupt number that is routed through the ictlr
NR_LOCAL_IRQS == 32
\* interrupt lines served by one ictlr instance
TEGRA_IRQS_PER_ICTLR == 32
\* number of ictlr instances in the register window
TEGRA_ICTLR_COUNT == 6
\* bytes of register space per ictlr instance
TEGRA_ICTLR_SIZE == 256
\* byte offsets of the registers of one instance
TEGRA_ICTLR_CPU_IER_SET == 36
TEGRA_ICTLR_CPU_IER_CLR == 40
TEGRA_ICTLR_CPU_IEP_CLASS == 44
\* width of a register accessed by writel, and of the uint32_t mask
REG_BITS == 32

(***************************************************************************)
(* Bounds of the model.                                                    *)
(***************************************************************************)
\* width, in bits, of `unsigned int' arithmetic in the model (the compiler's
\* is 32; the model keeps the wrap-around at a width TLC's integers hold)
UINT_BITS == 16

UINT_MOD == 2 ^ UINT_BITS

Instances == 0 .. (TEGRA_ICTLR_COUNT - 1)
RegBits == 0 .. (REG_BITS - 1)

\* ~0 and 0 as 32-bit values
ALL_ONES == RegBits
ZERO == {}

\* BIT(n): 1UL << n, truncated to the 32 bits of uint32_t
BIT(n) == IF n \in RegBits THEN {n} ELSE {}

\* first interrupt number past the last ictlr instance
IrqLimit == NR_LOCAL_IRQS + TEGRA_IRQS_PER_ICTLR * TEGRA_ICTLR_COUNT

\* interrupt numbers handed to the hooks: a local one, the first line of the
\* first instance, a line in its middle, the first line of the second
\* instance, the last line of the last instance, the first number past it,
\* and the largest unsigned int
IrqInputs ==
    { 10, NR_LOCAL_IRQS, 50, NR_LOCAL_IRQS + TEGRA_IRQS_PER_ICTLR,
      IrqLimit - 1, IrqLimit, UINT_MOD - 1 }

Domains == {"dom0", "domU1", "domU2"}
hardware_domain == "dom0"
is_hardware_domain(d) == d = hardware_domain

VIrqInputs == {87}
PriorityInputs == {160}

\* results of gic_route_irq_to_guest: 0, or a negative errno
GicErrors == {0 - 16, 0 - 22}
GicResults == {0} \cup GicErrors

NULL == "NULL"
MAPPED == "mapped"

\* register contents the hardware may hold before the platform is set up
PowerOnWords == { ZERO, ALL_ONES, {18}, {0, 31} }
PowerOnBanks ==
    { [i \in Instances |-> w] : w \in PowerOnWords }
    \cup { [i \in Instances |-> IF i = 0 THEN {0, 18} ELSE ALL_ONES] }

VARIABLES
    tegra_ictlr_base,   \* NULL until the register window is mapped
    ier,                \* per instance: the interrupt enable bits (CPU_IER)
    iep_class,          \* per instance: the class bits (CPU_IEP_CLASS)
    stray,              \* writes that fell outside the mapped window
    halted,             \* the hypervisor stopped on panic or assertion
    last,               \* the most recent call: arguments, result, trace
    requested,          \* history: lines a routing call asked to enable
    line_policy,        \* history: what the latest routing call of each
                        \* line asked for (kept when .on)
    cpu                 \* per core: the call it runs when calls overlap

vars == << tegra_ictlr_base, ier, iep_class, stray, halted, last,
           requested, line_policy, cpu >>

(***************************************************************************)
(* The machine state threaded through the C functions.                     *)
(***************************************************************************)
Machine(base, e, c, s) ==
    [ base |-> base, ier |-> e, cls |-> c, stray |-> s,
      ops |-> << >>, fatal |-> FALSE, rc |-> 0 ]

Event(kind, off, val) == [ kind |-> kind, off |-> off, val |-> val ]

Log(m, kind, off, val) ==
    [ m EXCEPT !.ops = Append(@, Event(kind, off, val)) ]

\* The ictlr hardware decoding a 32-bit write at byte offset off of the
\* window: the set register ORs the value into the enables, the clear
\* register removes it, the class register is a plain register.
HwWrite(m, off, val) ==
    IF off < 0 \/ off >= TEGRA_ICTLR_SIZE * TEGRA_ICTLR_COUNT
    THEN [ m EXCEPT !.stray = @ \cup { << off, val >> } ]
    ELSE LET n   == off \div TEGRA_ICTLR_SIZE
             reg == off % TEGRA_ICTLR_SIZE
         IN  CASE reg = TEGRA_ICTLR_CPU_IER_SET ->
                    [ m EXCEPT !.ier[n] = @ \cup val ]
               [] reg = TEGRA_ICTLR_CPU_IER_CLR ->
                    [ m EXCEPT !.ier[n] = @ \ val ]
               [] reg = TEGRA_ICTLR_CPU_IEP_CLASS ->
                    [ m EXCEPT !.cls[n] = val ]
               [] OTHER -> m

\* writel(val, tegra_ictlr_base + off); nothing runs after a fatal stop
writel(m, val, off) ==
    IF m.fatal THEN m ELSE HwWrite(Log(m, "writel", off, val), off, val)

\* ASSERT(p): a failed assertion stops the hypervisor
ASSERT_(m, p) ==
    IF m.fatal \/ p THEN m
    ELSE [ Log(m, "assert_failed", 0, ZERO) EXCEPT !.fatal = TRUE ]

\* panic(): stops the hypervisor
panic(m) ==
    IF m.fatal THEN m
    ELSE [ Log(m, "panic", 0, ZERO) EXCEPT !.fatal = TRUE ]

\* printk(): a log line, no state
printk(m) == IF m.fatal THEN m ELSE Log(m, "printk", 0, ZERO)

\* unsigned int subtraction and multiplication
USub(a, b) == (a - b) % UINT_MOD
UMul(a, b) == (a * b) % UINT_MOD

(***************************************************************************)
(* Faulty variants of tegra_ictlr_set_interrupt_enable, each one slip away *)
(* from the code below; the properties are checked to tell them apart.     *)
(***************************************************************************)
\* the SET and CLR registers taken the wrong way round
set_enable_swapped_registers(m, irq, enabled) ==
    LET register_number ==
            IF enabled THEN TEGRA_ICTLR_CPU_IER_CLR
                       ELSE TEGRA_ICTLR_CPU_IER_SET
        ictlr_irq    == USub(irq, NR_LOCAL_IRQS)
        ictlr_number == ictlr_irq \div TEGRA_IRQS_PER_ICTLR
        target_ictlr == UMul(TEGRA_ICTLR_SIZE, ictlr_number)
        mask         == BIT(ictlr_irq % TEGRA_IRQS_PER_ICTLR)
        a1 == ASSERT_(m, m.base # NULL)
        a2 == ASSERT_(a1, ictlr_number < TEGRA_ICTLR_COUNT)
        a3 == ASSERT_(a2, irq >= NR_LOCAL_IRQS)
    IN  writel(a3, mask, target_ictlr + register_number)

\* the instance taken from the global number, NR_LOCAL_IRQS not subtracted
set_enable_wrong_instance(m, irq, enabled) ==
    LET register_number ==
            IF enabled THEN TEGRA_ICTLR_CPU_IER_SET
                       ELSE TEGRA_ICTLR_CPU_IER_CLR
        ictlr_irq    == USub(irq, NR_LOCAL_IRQS)
        ictlr_number == irq \div TEGRA_IRQS_PER_ICTLR
        target_ictlr == UMul(TEGRA_ICTLR_SIZE, ictlr_number)
        mask         == BIT(ictlr_irq % TEGRA_IRQS_PER_ICTLR)
        a1 == ASSERT_(m, m.base # NULL)
        a2 == ASSERT_(a1, ictlr_number < TEGRA_ICTLR_COUNT)
        a3 == ASSERT_(a2, irq >= NR_LOCAL_IRQS)
    IN  writel(a3, mask, target_ictlr + register_number)

\* the instance index not checked against TEGRA_ICTLR_COUNT
set_enable_no_count_check(m, irq, enabled) ==
    LET register_number ==
            IF enabled THEN TEGRA_ICTLR_CPU_IER_SET
                       ELSE TEGRA_ICTLR_CPU_IER_CLR
        ictlr_irq    == USub(irq, NR_LOCAL_IRQS)
        ictlr_number == ictlr_irq \div TEGRA_IRQS_PER_ICTLR
        target_ictlr == UMul(TEGRA_ICTLR_SIZE, ictlr_number)
        mask         == BIT(ictlr_irq % TEGRA_IRQS_PER_ICTLR)
        a1 == ASSERT_(m, m.base # NULL)
        a3 == ASSERT_(a1, irq >= NR_LOCAL_IRQS)
    IN  writel(a3, mask, target_ictlr + register_number)

\* the bit flipped (as with ^= on an enable word) instead of set or cleared
set_enable_toggle(m, irq, enabled) ==
    LET ictlr_irq    == USub(irq, NR_LOCAL_IRQS)
        ictlr_number == ictlr_irq \div TEGRA_IRQS_PER_ICTLR
        target_ictlr == UMul(TEGRA_ICTLR_SIZE, ictlr_number)
        mask         == BIT(ictlr_irq % TEGRA_IRQS_PER_ICTLR)
        a1 == ASSERT_(m, m.base # NULL)
        a2 == ASSERT_(a1, ictlr_number < TEGRA_ICTLR_COUNT)
        a3 == ASSERT_(a2, irq >= NR_LOCAL_IRQS)
        register_number ==
            IF a3.fatal \/ mask \cap m.ier[ictlr_number] = {}
            THEN TEGRA_ICTLR_CPU_IER_SET
            ELSE TEGRA_ICTLR_CPU_IER_CLR
    IN  writel(a3, mask, target_ictlr + register_number)

\* disabling writes ~0, as initialization does, instead of the one-bit mask
set_enable_clears_whole_word(m, irq, enabled) ==
    LET register_number ==
            IF enabled THEN TEGRA_ICTLR_CPU_IER_SET
                       ELSE TEGRA_ICTLR_CPU_IER_CLR
        ictlr_irq    == USub(irq, NR_LOCAL_IRQS)
        ictlr_number == ictlr_irq \div TEGRA_IRQS_PER_ICTLR
        target_ictlr == UMul(TEGRA_ICTLR_SIZE, ictlr_number)
        mask         == IF enabled THEN BIT(ictlr_irq % TEGRA_IRQS_PER_ICTLR)
                        ELSE ALL_ONES
        a1 == ASSERT_(m, m.base # NULL)
        a2 == ASSERT_(a1, ictlr_number < TEGRA_ICTLR_COUNT)
        a3 == ASSERT_(a2, irq >= NR_LOCAL_IRQS)
    IN  writel(a3, mask, target_ictlr + register_number)

\* the mask covers every bit up to the line's, (1 << (n + 1)) - 1
set_enable_wide_mask(m, irq, enabled) ==
    LET register_number ==
            IF enabled THEN TEGRA_ICTLR_CPU_IER_SET
                       ELSE TEGRA_ICTLR_CPU_IER_CLR
        ictlr_irq    == USub(irq, NR_LOCAL_IRQS)
        ictlr_number == ictlr_irq \div TEGRA_IRQS_PER_ICTLR
        target_ictlr == UMul(TEGRA_ICTLR_SIZE, ictlr_number)
        mask         == 0 .. (ictlr_irq % TEGRA_IRQS_PER_ICTLR)
        a1 == ASSERT_(m, m.base # NULL)
        a2 == ASSERT_(a1, ictlr_number < TEGRA_ICTLR_COUNT)
        a3 == ASSERT_(a2, irq >= NR_LOCAL_IRQS)
    IN  writel(a3, mask, target_ictlr + register_number)

\* the mapping not checked
set_enable_no_base_check(m, irq, enabled) ==
    LET register_number ==
            IF enabled THEN TEGRA_ICTLR_CPU_IER_SET
                       ELSE TEGRA_ICTLR_CPU_IER_CLR
        ictlr_irq    == USub(irq, NR_LOCAL_IRQS)
        ictlr_number == ictlr_irq \div TEGRA_IRQS_PER_ICTLR
        target_ictlr == UMul(TEGRA_ICTLR_SIZE, ictlr_number)
        mask         == BIT(ictlr_irq % TEGRA_IRQS_PER_ICTLR)
        a2 == ASSERT_(m, ictlr_number < TEGRA_ICTLR_COUNT)
        a3 == ASSERT_(a2, irq >= NR_LOCAL_IRQS)
    IN  writel(a3, mask, target_ictlr + register_number)

\* the class register written along with the enable
set_enable_writes_class(m, irq, enabled) ==
    LET register_number ==
            IF enabled THEN TEGRA_ICTLR_CPU_IER_SET
                       ELSE TEGRA_ICTLR_CPU_IER_CLR
        ictlr_irq    == USub(irq, NR_LOCAL_IRQS)
        ictlr_number == ictlr_irq \div TEGRA_IRQS_PER_ICTLR
        target_ictlr == UMul(TEGRA_ICTLR_SIZE, ictlr_number)
        mask         == BIT(ictlr_irq % TEGRA_IRQS_PER_ICTLR)
        a1 == ASSERT_(m, m.base # NULL)
        a2 == ASSERT_(a1, ictlr_number < TEGRA_ICTLR_COUNT)
        a3 == ASSERT_(a2, irq >= NR_LOCAL_IRQS)
        w1 == writel(a3, mask, target_ictlr + register_number)
    IN  writel(w1, mask, target_ictlr + TEGRA_ICTLR_CPU_IEP_CLASS)

\* read-modify-write: the whole enable word of the instance, as read at the
\* start of the call, is written back with the one bit changed
set_enable_read_modify_write(m, irq, enabled) ==
    LET ictlr_irq    == USub(irq, NR_LOCAL_IRQS)
        ictlr_number == ictlr_irq \div TEGRA_IRQS_PER_ICTLR
        target_ictlr == UMul(TEGRA_ICTLR_SIZE, ictlr_number)
        mask         == BIT(ictlr_irq % TEGRA_IRQS_PER_ICTLR)
        a1 == ASSERT_(m, m.base # NULL)
        a2 == ASSERT_(a1, ictlr_number < TEGRA_ICTLR_COUNT)
        a3 == ASSERT_(a2, irq >= NR_LOCAL_IRQS)
        old  == IF a3.fatal THEN ZERO ELSE m.ier[ictlr_number]
        word == IF enabled THEN old \cup mask ELSE old \ mask
        w1 == writel(a3, ALL_ONES \ word, target_ictlr + TEGRA_ICTLR_CPU_IER_CLR)
    IN  writel(w1, word, target_ictlr + TEGRA_ICTLR_CPU_IER_SET)

(***************************************************************************)
(* tegra_ictlr_set_interrupt_enable                                        *)
(***************************************************************************)
tegra_ictlr_set_interrupt_enable(m, irq, enabled) ==
    LET register_number ==
            IF enabled THEN TEGRA_ICTLR_CPU_IER_SET
                       ELSE TEGRA_ICTLR_CPU_IER_CLR
        ictlr_irq    == USub(irq, NR_LOCAL_IRQS)
        ictlr_number == ictlr_irq \div TEGRA_IRQS_PER_ICTLR
        target_ictlr == UMul(TEGRA_ICTLR_SIZE, ictlr_number)
        mask         == BIT(ictlr_irq % TEGRA_IRQS_PER_ICTLR)
        a1 == ASSERT_(m, m.base # NULL)
        a2 == ASSERT_(a1, ictlr_number < TEGRA_ICTLR_COUNT)
        a3 == ASSERT_(a2, irq >= NR_LOCAL_IRQS)
    IN  writel(a3, mask, target_ictlr + register_number)

(***************************************************************************)
(* gic_route_irq_to_guest / gic_route_irq_to_xen: calls into the GIC       *)
(* driver.  The guest binding answers with gic_rc.                         *)
(***************************************************************************)
gic_route_irq_to_guest(m, irq, gic_rc) ==
    IF m.fatal THEN m
    ELSE [ Log(m, "gic_route_irq_to_guest", irq, ZERO) EXCEPT !.rc = gic_rc ]

gic_route_irq_to_xen(m, irq) ==
    IF m.fatal THEN m ELSE Log(m, "gic_route_irq_to_xen", irq, ZERO)

\* faulty variant: the ictlr is adjusted before the GIC result is looked at
route_to_guest_ictlr_before_rc(m, d, virq, irq, priority, gic_rc) ==
    LET g == gic_route_irq_to_guest(m, irq, gic_rc)
        e == IF irq < NR_LOCAL_IRQS THEN g
             ELSE tegra_ictlr_set_interrupt_enable(g, irq, ~ is_hardware_domain(d))
    IN  IF g.rc # 0 THEN printk(e) ELSE e

\* faulty variant: the ictlr left alone for the hardware domain, which
\* programs it itself
route_to_guest_skips_hwdom(m, d, virq, irq, priority, gic_rc) ==
    LET g == gic_route_irq_to_guest(m, irq, gic_rc)
    IN  IF g.rc # 0 THEN printk(g)
        ELSE IF irq < NR_LOCAL_IRQS \/ is_hardware_domain(d) THEN g
        ELSE tegra_ictlr_set_interrupt_enable(g, irq, TRUE)

\* faulty variant: the hardware-domain test not negated
route_to_guest_policy_inverted(m, d, virq, irq, priority, gic_rc) ==
    LET g == gic_route_irq_to_guest(m, irq, gic_rc)
    IN  IF g.rc # 0 THEN printk(g)
        ELSE IF irq < NR_LOCAL_IRQS THEN g
        ELSE tegra_ictlr_set_interrupt_enable(g, irq, is_hardware_domain(d))

(***************************************************************************)
(* tegra_route_irq_to_guest                                                *)
(***************************************************************************)
tegra_route_irq_to_guest(m, d, virq, irq, priority, gic_rc) ==
    LET g == gic_route_irq_to_guest(m, irq, gic_rc)
    IN  IF g.rc # 0 THEN printk(g)
        ELSE IF irq < NR_LOCAL_IRQS THEN g
        ELSE tegra_ictlr_set_interrupt_enable(g, irq, ~ is_hardware_domain(d))

\* faulty variant: local interrupts not told apart
route_to_xen_no_local_check(m, irq, priority) ==
    LET g == gic_route_irq_to_xen(m, irq)
    IN  tegra_ictlr_set_interrupt_enable(g, irq, TRUE)

\* faulty variant: the ictlr is enabled before the GIC is programmed
route_to_xen_ictlr_first(m, irq, priority) ==
    IF irq < NR_LOCAL_IRQS THEN gic_route_irq_to_xen(m, irq)
    ELSE gic_route_irq_to_xen(tegra_ictlr_set_interrupt_enable(m, irq, TRUE), irq)

(***************************************************************************)
(* tegra_route_irq_to_xen                                                  *)
(***************************************************************************)
tegra_route_irq_to_xen(m, irq, priority) ==
    LET g == gic_route_irq_to_xen(m, irq)
    IN  IF irq < NR_LOCAL_IRQS THEN g
        ELSE tegra_ictlr_set_interrupt_enable(g, irq, TRUE)

\* faulty variant: the loop runs one instance too far
RECURSIVE InitLoopOneTooMany(_, _)
InitLoopOneTooMany(m, i) ==
    IF i <= TEGRA_ICTLR_COUNT
    THEN LET ictlr_n == TEGRA_ICTLR_SIZE * i
             w1 == writel(m, ALL_ONES, ictlr_n + TEGRA_ICTLR_CPU_IER_CLR)
             w2 == writel(w1, ZERO, ictlr_n + TEGRA_ICTLR_CPU_IEP_CLASS)
         IN  InitLoopOneTooMany(w2, i + 1)
    ELSE m

\* faulty variant: the loop stops one instance short
RECURSIVE InitLoopOffByOne(_, _)
InitLoopOffByOne(m, i) ==
    IF i < TEGRA_ICTLR_COUNT - 1
    THEN LET ictlr_n == TEGRA_ICTLR_SIZE * i
             w1 == writel(m, ALL_ONES, ictlr_n + TEGRA_ICTLR_CPU_IER_CLR)
             w2 == writel(w1, ZERO, ictlr_n + TEGRA_ICTLR_CPU_IEP_CLASS)
         IN  InitLoopOffByOne(w2, i + 1)
    ELSE m

(***************************************************************************)
(* tegra_initialize_legacy_interrupt_controller                            *)
(***************************************************************************)
RECURSIVE InitLoop(_, _)
InitLoop(m, i) ==
    IF i < TEGRA_ICTLR_COUNT
    THEN LET ictlr_n == TEGRA_ICTLR_SIZE * i
             w1 == writel(m, ALL_ONES, ictlr_n + TEGRA_ICTLR_CPU_IER_CLR)
             w2 == writel(w1, ZERO, ictlr_n + TEGRA_ICTLR_CPU_IEP_CLASS)
         IN  InitLoop(w2, i + 1)
    ELSE m

\* ioremap_result: what ioremap_nocache returned, NULL or a mapping
tegra_initialize_legacy_interrupt_controller(m, ioremap_result) ==
    LET m1 == [ m EXCEPT !.base = ioremap_result ]
        m2 == IF m1.base = NULL THEN panic(m1) ELSE m1
    IN  InitLoop(m2, 0)

(***************************************************************************)
(* tegra_irq_belongs_to_ictlr / tegra_irq_is_routable                      *)
(***************************************************************************)
tegra_interrupt_compat ==
    << "nvidia,tegra124-ictlr", "nvidia,tegra210-ictlr" >>

\* device tree nodes an interrupt may name as its controller: the GIC the
\* platform registered, both supported legacy controllers, an older legacy
\* controller, a GPIO controller, a GIC that is not the registered one, and
\* a node without a compatible property
NoNode == [ name |-> "none", compatible |-> << >> ]
ControllerInputs ==
    { [ name |-> "gic", compatible |-> << "arm,gic-400", "arm,cortex-a15-gic" >> ],
      [ name |-> "lic-k1",
        compatible |-> << "nvidia,tegra124-ictlr", "nvidia,tegra30-ictlr" >> ],
      [ name |-> "lic-x1", compatible |-> << "nvidia,tegra210-ictlr" >> ],
      [ name |-> "lic-t30", compatible |-> << "nvidia,tegra30-ictlr" >> ],
      [ name |-> "gpio",
        compatible |-> << "nvidia,tegra124-gpio", "nvidia,tegra30-gpio" >> ],
      [ name |-> "gic2", compatible |-> << "arm,gic-400" >> ],
      NoNode }

\* the node registered as the primary interrupt controller
dt_interrupt_controller == "gic"

\* dt_device_is_compatible: the node's compatible property lists the string
dt_device_is_compatible(node, compat) ==
    \E k \in 1 .. Len(node.compatible) : node.compatible[k] = compat

\* the loop of tegra_irq_belongs_to_ictlr over a list of strings, from
\* index i on
RECURSIVE CompatLoop(_, _, _)
CompatLoop(list, controller, i) ==
    IF i <= Len(list)
    THEN IF dt_device_is_compatible(controller, list[i]) THEN TRUE
         ELSE CompatLoop(list, controller, i + 1)
    ELSE FALSE

\* faulty variant: the loop stops before the last entry of the list
belongs_to_ictlr_short_loop(rirq) ==
    CompatLoop(SubSeq(tegra_interrupt_compat, 1,
                      Len(tegra_interrupt_compat) - 1),
               rirq.controller, 1)

tegra_irq_belongs_to_ictlr(rirq) ==
    CompatLoop(tegra_interrupt_compat, rirq.controller, 1)

tegra_irq_is_routable(rirq) ==
    IF rirq.controller.name = dt_interrupt_controller THEN TRUE
    ELSE IF tegra_irq_belongs_to_ictlr(rirq) THEN TRUE
    ELSE FALSE

(***************************************************************************)
(* The hooks as steps of the system, one call at a time.                   *)
(***************************************************************************)
NoCall ==
    [ op |-> "none", d |-> hardware_domain, virq |-> 0, irq |-> 0,
      priority |-> 0, enabled |-> FALSE, gic_rc |-> 0, rc |-> 0,
      fatal |-> FALSE, ops |-> << >>,
      pre_base |-> NULL, pre_ier |-> [i \in Instances |-> ZERO],
      pre_cls |-> [i \in Instances |-> ZERO],
      again |-> FALSE, prev_rc |-> 0,
      controller |-> NoNode, routable |-> FALSE,
      enabled2 |-> FALSE, mid_ier |-> [i \in Instances |-> ZERO] ]

Cores == {"cpu0", "cpu1"}
IdleCore ==
    [ pc |-> "idle", op |-> "none", d |-> hardware_domain, gic_rc |-> 0,
      irq |-> 0, enabled |-> FALSE, pending |-> << >>,
      issued |-> 0, wrote_last |-> FALSE ]

Now == Machine(tegra_ictlr_base, ier, iep_class, stray)

\* the same hook with the same arguments, answered alike by the GIC
SameCall(a, b) ==
    /\ a.op = b.op /\ a.d = b.d /\ a.virq = b.virq /\ a.irq = b.irq
    /\ a.priority = b.priority /\ a.enabled = b.enabled
    /\ a.gic_rc = b.gic_rc

RoutingOps == {"route_irq_to_xen", "route_irq_to_guest"}

\* the enable state a routing call asks the ictlr for: "set", "clear", or
\* "none" when the call does not reach the ictlr step
Policy(call) ==
    CASE call.op = "route_irq_to_xen" /\ call.irq >= NR_LOCAL_IRQS -> "set"
      [] call.op = "route_irq_to_guest" /\ call.irq >= NR_LOCAL_IRQS
            /\ call.gic_rc = 0 ->
            IF is_hardware_domain(call.d) THEN "clear" ELSE "set"
      [] OTHER -> "none"

\* the lines behind the ictlr, and the history of a platform where no
\* routing call has reached the ictlr yet
Lines == NR_LOCAL_IRQS .. (IrqLimit - 1)
NoPolicy == [l \in Lines |-> "none"]

\* the call ran from the current state and left machine state r
Commit(r, call) ==
    /\ tegra_ictlr_base' = r.base
    /\ ier' = r.ier
    /\ iep_class' = r.cls
    /\ stray' = r.stray
    /\ halted' = r.fatal
    /\ last' = [ call EXCEPT !.rc = r.rc, !.fatal = r.fatal, !.ops = r.ops,
                             !.pre_base = tegra_ictlr_base,
                             !.pre_ier = ier, !.pre_cls = iep_class,
                             !.again = SameCall(call, last),
                             !.prev_rc = last.rc ]
    /\ requested' =
         IF call.op = "init" THEN {}
         ELSE IF Policy(call) = "set" /\ ~ r.fatal
              THEN requested \cup {call.irq}
              ELSE requested
    /\ line_policy' =
         IF ~ line_policy.on THEN line_policy
         ELSE IF call.op = "init" THEN [ line_policy EXCEPT !.of = NoPolicy ]
         ELSE IF Policy(call) # "none" /\ ~ r.fatal /\ call.irq \in Lines
              THEN [ line_policy EXCEPT !.of[call.irq] = Policy(call) ]
              ELSE line_policy
    /\ UNCHANGED cpu

Initialize ==
    /\ ~ halted
    /\ tegra_ictlr_base = NULL
    /\ \E ioremap_result \in {NULL, MAPPED} :
         Commit(tegra_initialize_legacy_interrupt_controller(Now, ioremap_result),
                [ NoCall EXCEPT !.op = "init" ])

RouteIrqToXen ==
    /\ ~ halted
    /\ \E irq \in IrqInputs, priority \in PriorityInputs :
         Commit(tegra_route_irq_to_xen(Now, irq, priority),
                [ NoCall EXCEPT !.op = "route_irq_to_xen", !.irq = irq,
                                !.priority = priority ])

RouteIrqToGuest ==
    /\ ~ halted
    /\ \E d \in Domains, virq \in VIrqInputs, irq \in IrqInputs,
          priority \in PriorityInputs, gic_rc \in GicResults :
         Commit(tegra_route_irq_to_guest(Now, d, virq, irq, priority, gic_rc),
                [ NoCall EXCEPT !.op = "route_irq_to_guest", !.d = d,
                                !.virq = virq, !.irq = irq,
                                !.priority = priority, !.gic_rc = gic_rc ])

\* tegra_irq_is_routable: it reads its argument and nothing else
IrqIsRoutable ==
    /\ ~ halted
    /\ \E controller \in ControllerInputs, line \in {10, 50} :
         LET rirq == [ controller |-> controller, line |-> line ]
         IN  Commit(Now,
                    [ NoCall EXCEPT !.op = "irq_is_routable", !.irq = line,
                                    !.controller = controller,
                                    !.routable = tegra_irq_is_routable(rirq) ])

\* tegra_ictlr_set_interrupt_enable called on its own
SetInterruptEnable ==
    /\ ~ halted
    /\ \E irq \in IrqInputs, enabled \in BOOLEAN :
         Commit(tegra_ictlr_set_interrupt_enable(Now, irq, enabled),
                [ NoCall EXCEPT !.op = "set_interrupt_enable", !.irq = irq,
                                !.enabled = enabled ])

\* tegra_ictlr_set_interrupt_enable called twice in a row for one irq
SetInterruptEnableTwice ==
    /\ ~ halted
    /\ \E irq \in IrqInputs, enabled \in BOOLEAN, enabled2 \in BOOLEAN :
         LET r1 == tegra_ictlr_set_interrupt_enable(Now, irq, enabled)
             r2 == IF r1.fatal THEN r1
                   ELSE tegra_ictlr_set_interrupt_enable(r1, irq, enabled2)
         IN  Commit(r2,
                    [ NoCall EXCEPT !.op = "set_interrupt_enable_twice",
                                    !.irq = irq, !.enabled = enabled,
                                    !.enabled2 = enabled2,
                                    !.mid_ier = r1.ier ])

Init ==
    /\ tegra_ictlr_base = NULL
    /\ ier \in PowerOnBanks
    /\ iep_class \in PowerOnBanks
    /\ stray = {}
    /\ halted = FALSE
    /\ last = NoCall
    /\ requested = {}
    /\ line_policy = [ on |-> FALSE, of |-> NoPolicy ]
    /\ cpu = [c \in Cores |-> IdleCore]

\* the same start, with the per-line history kept
InitHistory ==
    /\ tegra_ictlr_base = NULL
    /\ ier \in PowerOnBanks
    /\ iep_class \in PowerOnBanks
    /\ stray = {}
    /\ halted = FALSE
    /\ last = NoCall
    /\ requested = {}
    /\ line_policy = [ on |-> TRUE, of |-> NoPolicy ]
    /\ cpu = [c \in Cores |-> IdleCore]

\* the platform hooks, called one at a time
Next == Initialize \/ RouteIrqToXen \/ RouteIrqToGuest

Spec == Init /\ [][Next]_vars

\* the hooks and the enable-state controller called on its own
NextUnit == Initialize \/ RouteIrqToXen \/ RouteIrqToGuest \/ SetInterruptEnable

SpecUnit == Init /\ [][NextUnit]_vars

\* the platform hooks, called one at a time, with the per-line history
SpecHistory == InitHistory /\ [][Next]_vars

\* the enable-state controller called in pairs
NextPairs == Initialize \/ SetInterruptEnableTwice

SpecPairs == Init /\ [][NextPairs]_vars

\* The hardware domain has real access to the ictlr and programs it itself
\* (comment of tegra_route_irq_to_guest): once the platform is up it may
\* write the registers of an instance.
HardwareDomainWrite ==
    /\ ~ halted
    /\ tegra_ictlr_base # NULL
    /\ \E i \in {0, TEGRA_ICTLR_COUNT - 1},
          reg \in { TEGRA_ICTLR_CPU_IER_SET, TEGRA_ICTLR_CPU_IER_CLR,
                    TEGRA_ICTLR_CPU_IEP_CLASS },
          val \in { ZERO, {18}, {0, 31} } :
         Commit(HwWrite(Now, TEGRA_ICTLR_SIZE * i + reg, val),
                [ NoCall EXCEPT !.op = "hardware_domain_write" ])

\* the enable-state controller next to a hardware domain that programs the
\* ictlr
NextHwdom == Initialize \/ SetInterruptEnable \/ HardwareDomainWrite

SpecHwdom == Init /\ [][NextHwdom]_vars

\* every hook of the platform, called one at a time
NextPlatform ==
    Initialize \/ RouteIrqToXen \/ RouteIrqToGuest \/ IrqIsRoutable

SpecPlatform == Init /\ [][NextPlatform]_vars

(***************************************************************************)
(* Calls that overlap on two cores.  The code takes no lock: a core enters *)
(* tegra_ictlr_set_interrupt_enable, which computes its register writes    *)
(* from what it sees at that moment, and the writes then reach the ictlr   *)
(* one at a time, interleaved with the other core's.                       *)
(***************************************************************************)
\* lines of the cores' calls: two lines of instance 0, one of instance 1,
\* and the last line of the last instance
ConcIrqs ==
    { NR_LOCAL_IRQS, 50, NR_LOCAL_IRQS + TEGRA_IRQS_PER_ICTLR, IrqLimit - 1 }

\* enable states that initialization and earlier routing calls can leave
ConcBanks ==
    { [i \in Instances |-> ZERO],
      [i \in Instances |-> IF i = 0 THEN {0, 18, 31} ELSE ZERO],
      [i \in Instances |-> IF i = 0 THEN {18} ELSE {0}] }

IsWritel(e) == e.kind = "writel"

CpuCall(c) ==
    /\ ~ halted
    /\ cpu[c].pc = "idle"
    /\ \E irq \in ConcIrqs, enabled \in BOOLEAN :
         LET r == tegra_ictlr_set_interrupt_enable(Now, irq, enabled)
             writes == SelectSeq(r.ops, IsWritel)
         IN  /\ cpu' = [ cpu EXCEPT ![c] =
                           [ pc |-> IF r.fatal THEN "fatal"
                                    ELSE IF writes = << >> THEN "done"
                                    ELSE "bus",
                             op |-> "set_interrupt_enable",
                             d |-> hardware_domain, gic_rc |-> 0,
                             irq |-> irq, enabled |-> enabled,
                             pending |-> writes, issued |-> 0,
                             wrote_last |-> FALSE ] ]
             /\ halted' = r.fatal
    /\ UNCHANGED << tegra_ictlr_base, ier, iep_class, stray, last, requested,
                 line_policy >>

\* what a routing call does outside the core: the GIC call, register writes
IsBusOp(e) ==
    e.kind \in {"writel", "gic_route_irq_to_xen", "gic_route_irq_to_guest"}

\* a core entering a routing hook that ran to its end and left r
CpuEnter(c, r, op, d, irq, gic_rc) ==
    LET steps == SelectSeq(r.ops, IsBusOp)
    IN  /\ cpu' = [ cpu EXCEPT ![c] =
                      [ pc |-> IF r.fatal THEN "fatal"
                               ELSE IF steps = << >> THEN "done"
                               ELSE "bus",
                        op |-> op, d |-> d, gic_rc |-> gic_rc,
                        irq |-> irq, enabled |-> FALSE,
                        pending |-> steps, issued |-> 0,
                        wrote_last |-> FALSE ] ]
        /\ halted' = r.fatal

CpuRouteIrqToXen(c) ==
    /\ ~ halted
    /\ cpu[c].pc = "idle"
    /\ \E irq \in ConcIrqs, priority \in PriorityInputs :
         CpuEnter(c, tegra_route_irq_to_xen(Now, irq, priority),
                  "route_irq_to_xen", hardware_domain, irq, 0)
    /\ UNCHANGED << tegra_ictlr_base, ier, iep_class, stray, last, requested,
                 line_policy >>

CpuRouteIrqToGuest(c) ==
    /\ ~ halted
    /\ cpu[c].pc = "idle"
    /\ \E d \in Domains, virq \in VIrqInputs, irq \in ConcIrqs,
          priority \in PriorityInputs, gic_rc \in GicResults :
         CpuEnter(c, tegra_route_irq_to_guest(Now, d, virq, irq, priority, gic_rc),
                  "route_irq_to_guest", d, irq, gic_rc)
    /\ UNCHANGED << tegra_ictlr_base, ier, iep_class, stray, last, requested,
                 line_policy >>

\* variant with a lock the code does not have: a core's write waits while
\* the other core is in its call
CpuBusUnderLock(c) ==
    /\ ~ halted
    /\ cpu[c].pc = "bus"
    /\ \A o \in Cores \ {c} : cpu[o].pc # "bus" \/ c = "cpu0"
    /\ LET e == Head(cpu[c].pending)
           r == IF e.kind = "writel" THEN HwWrite(Now, e.off, e.val) ELSE Now
       IN  /\ ier' = r.ier
           /\ iep_class' = r.cls
           /\ stray' = r.stray
           /\ cpu' = [ o \in Cores |->
                       IF o = c
                       THEN [ cpu[c] EXCEPT
                                !.pending = Tail(@),
                                !.issued = IF e.kind = "writel" THEN @ + 1 ELSE @,
                                !.wrote_last = (e.kind = "writel") \/ @,
                                !.pc = IF Len(cpu[c].pending) = 1
                                       THEN "done" ELSE "bus" ]
                       ELSE [ cpu[o] EXCEPT
                                !.wrote_last = (e.kind # "writel") /\ @ ] ]
    /\ UNCHANGED << tegra_ictlr_base, halted, last, requested, line_policy >>

\* the next step of a core's call reaches the GIC or the ictlr
CpuBus(c) ==
    /\ ~ halted
    /\ cpu[c].pc = "bus"
    /\ LET e == Head(cpu[c].pending)
           r == IF e.kind = "writel" THEN HwWrite(Now, e.off, e.val) ELSE Now
       IN  /\ ier' = r.ier
           /\ iep_class' = r.cls
           /\ stray' = r.stray
           /\ cpu' = [ o \in Cores |->
                       IF o = c
                       THEN [ cpu[c] EXCEPT
                                !.pending = Tail(@),
                                !.issued = IF e.kind = "writel" THEN @ + 1 ELSE @,
                                !.wrote_last = (e.kind = "writel") \/ @,
                                !.pc = IF Len(cpu[c].pending) = 1
                                       THEN "done" ELSE "bus" ]
                       ELSE [ cpu[o] EXCEPT
                                !.wrote_last = (e.kind # "writel") /\ @ ] ]
    /\ UNCHANGED << tegra_ictlr_base, halted, last, requested, line_policy >>

ConcInit ==
    /\ tegra_ictlr_base = MAPPED
    /\ ier \in ConcBanks
    /\ iep_class = [i \in Instances |-> ZERO]
    /\ stray = {}
    /\ halted = FALSE
    /\ last = [ NoCall EXCEPT !.pre_base = MAPPED, !.pre_ier = ier ]
    /\ requested = {}
    /\ line_policy = [ on |-> FALSE, of |-> NoPolicy ]
    /\ cpu = [c \in Cores |-> IdleCore]

NextConc == (\E c \in Cores : CpuCall(c)) \/ (\E c \in Cores : CpuBus(c))

SpecConc == ConcInit /\ [][NextConc]_vars

\* routing hooks overlapping on two cores
NextRace ==
    \/ \E c \in Cores : CpuRouteIrqToXen(c)
    \/ \E c \in Cores : CpuRouteIrqToGuest(c)
    \/ \E c \in Cores : CpuBus(c)

SpecRace == ConcInit /\ [][NextRace]_vars

(***************************************************************************)
(* Vocabulary of the properties.                                           *)
(***************************************************************************)
\* an interrupt number served by one of the ictlr instances
InRange(irq) == irq >= NR_LOCAL_IRQS /\ irq < IrqLimit

\* the line of a global interrupt number: instance and bit within it
LineInstance(irq) == (irq - NR_LOCAL_IRQS) \div TEGRA_IRQS_PER_ICTLR
LineBit(irq) == (irq - NR_LOCAL_IRQS) % TEGRA_IRQS_PER_ICTLR
LineEnabled(e, irq) == LineBit(irq) \in e[LineInstance(irq)]

Kinds(ops) == { ops[j].kind : j \in 1 .. Len(ops) }
GicKinds == {"gic_route_irq_to_xen", "gic_route_irq_to_guest"}

\* the call left every ictlr register as it found it
RegistersUntouched ==
    /\ ier = last.pre_ier
    /\ iep_class = last.pre_cls
    /\ stray = {}
    /\ "writel" \notin Kinds(last.ops)

AllZeroBank == [i \in Instances |-> ZERO]
AllOnesBank == [i \in Instances |-> ALL_ONES]

(***************************************************************************)
(* C1: when the GIC guest binding fails, tegra_route_irq_to_guest returns  *)
(* exactly the GIC's error code and no ictlr register (enable or class, of *)
(* any instance) differs from before the call, for local and non-local     *)
(* interrupt numbers alike.                                                *)
(***************************************************************************)
C1_FailedBindingLeavesIctlr ==
    (last.op = "route_irq_to_guest" /\ last.gic_rc # 0)
        => /\ last.rc = last.gic_rc
           /\ ~ last.fatal
           /\ RegistersUntouched

\* a failed binding of a non-local line to a guest that would have had the
\* line enabled, while the line is disabled
C1_Witness ==
    /\ last.op = "route_irq_to_guest"
    /\ last.gic_rc = 0 - 22
    /\ last.rc = 0 - 22
    /\ last.irq = 50
    /\ last.d = "domU1"
    /\ last.pre_base = MAPPED
    /\ ~ LineEnabled(ier, 50)

(***************************************************************************)
(* C2: for an interrupt number below NR_LOCAL_IRQS both routing hooks call *)
(* the GIC, never reach tegra_ictlr_set_interrupt_enable, leave every      *)
(* ictlr register unchanged and return normally, whatever the GIC answers. *)
(***************************************************************************)
C2_LocalIrqBypassesIctlr ==
    (last.op \in RoutingOps /\ last.irq < NR_LOCAL_IRQS)
        => /\ Len(last.ops) >= 1
           /\ last.ops[1].kind = "gic_" \o last.op
           /\ "assert_failed" \notin Kinds(last.ops)
           /\ RegistersUntouched
           /\ ~ last.fatal
           /\ last.op = "route_irq_to_guest" => last.rc = last.gic_rc

\* a local interrupt routed to Xen while some line is enabled
C2_Witness ==
    /\ last.op = "route_irq_to_xen"
    /\ last.irq = 10
    /\ last.pre_base = MAPPED
    /\ LineEnabled(ier, 50)
    /\ Len(last.ops) = 1

(***************************************************************************)
(* C3: once the window is mapped, a guest routing of an in-range non-local *)
(* line whose GIC binding succeeds returns 0 and leaves the line's enable  *)
(* bit (instance (irq - 32) div 32, bit (irq - 32) mod 32) clear for the   *)
(* hardware domain and set for any other domain, whatever it was before;   *)
(* irq 50 is instance 0, bit 18.                                           *)
(***************************************************************************)
C3_GuestRoutingPolicy ==
    (/\ last.op = "route_irq_to_guest"
     /\ last.gic_rc = 0
     /\ InRange(last.irq)
     /\ last.pre_base # NULL)
        => /\ last.rc = 0
           /\ ~ last.fatal
           /\ LineEnabled(ier, last.irq) <=> ~ is_hardware_domain(last.d)
           /\ last.irq = 50 =>
                (18 \in ier[0] <=> ~ is_hardware_domain(last.d))

\* irq 50 routed to the hardware domain while its bit was set
C3_Witness ==
    /\ last.op = "route_irq_to_guest"
    /\ last.gic_rc = 0
    /\ last.irq = 50
    /\ last.d = hardware_domain
    /\ 18 \in last.pre_ier[0]
    /\ 18 \notin ier[0]

(***************************************************************************)
(* C4: once the window is mapped, after tegra_route_irq_to_xen returns for *)
(* an in-range non-local line, the line's ictlr enable bit is set,         *)
(* whatever its state before the call.                                     *)
(***************************************************************************)
C4_XenRoutingEnables ==
    (/\ last.op = "route_irq_to_xen"
     /\ InRange(last.irq)
     /\ last.pre_base # NULL)
        => /\ ~ last.fatal
           /\ LineEnabled(ier, last.irq)

\* the last line of the last instance routed to Xen while it was disabled
C4_Witness ==
    /\ last.op = "route_irq_to_xen"
    /\ last.irq = IrqLimit - 1
    /\ last.pre_base # NULL
    /\ ~ LineEnabled(last.pre_ier, IrqLimit - 1)
    /\ LineEnabled(ier, IrqLimit - 1)

(***************************************************************************)
(* C5: when the mapping succeeds, initialization writes ~0 to the          *)
(* enable-clear register and 0 to the class register of every instance     *)
(* 0..TEGRA_ICTLR_COUNT-1, so that every line is disabled and classed      *)
(* normal whatever the registers held; when the mapping fails it panics    *)
(* and writes no register.                                                 *)
(***************************************************************************)
InitWrites ==
    [ j \in 1 .. 2 * TEGRA_ICTLR_COUNT |->
        LET i == (j - 1) \div 2
        IN  IF j % 2 = 1
            THEN Event("writel", TEGRA_ICTLR_SIZE * i + TEGRA_ICTLR_CPU_IER_CLR,
                       ALL_ONES)
            ELSE Event("writel", TEGRA_ICTLR_SIZE * i + TEGRA_ICTLR_CPU_IEP_CLASS,
                       ZERO) ]

C5_InitializationResetsEveryInstance ==
    last.op = "init"
        => IF tegra_ictlr_base # NULL
           THEN /\ ~ last.fatal
                /\ last.ops = InitWrites
                /\ ier = AllZeroBank
                /\ iep_class = AllZeroBank
                /\ stray = {}
           ELSE /\ last.fatal
                /\ halted
                /\ "panic" \in Kinds(last.ops)
                /\ RegistersUntouched

\* a successful initialization over hardware that had every line enabled
\* and classed fast
C5_Witness ==
    /\ last.op = "init"
    /\ tegra_ictlr_base = MAPPED
    /\ last.pre_ier = AllOnesBank
    /\ last.pre_cls = AllOnesBank
    /\ ier = AllZeroBank

(***************************************************************************)
(* C6: after initialization, under any sequence of routing calls, a line   *)
(* is enabled only if a routing call made since initialization asked to    *)
(* enable that very line; a routing call changes no bit but the one of its *)
(* own line, and changes none when it is local or its binding failed.      *)
(***************************************************************************)
LineOf(i, b) == NR_LOCAL_IRQS + TEGRA_IRQS_PER_ICTLR * i + b

C6_EnabledOnlyWhenRequested ==
    /\ tegra_ictlr_base # NULL =>
         \A i \in Instances : \A b \in RegBits :
            b \in ier[i] => LineOf(i, b) \in requested
    /\ last.op \in RoutingOps =>
         \A i \in Instances : \A b \in RegBits :
            ((b \in ier[i]) # (b \in last.pre_ier[i]))
                => (LineOf(i, b) = last.irq /\ Policy(last) # "none")

\* line 50 is enabled on request, and a failed binding of line 64 has left
\* line 64 disabled
C6_Witness ==
    /\ tegra_ictlr_base # NULL
    /\ 50 \in requested
    /\ LineEnabled(ier, 50)
    /\ last.op = "route_irq_to_guest"
    /\ last.irq = NR_LOCAL_IRQS + TEGRA_IRQS_PER_ICTLR
    /\ last.d = "domU2"
    /\ last.gic_rc # 0
    /\ ~ LineEnabled(ier, NR_LOCAL_IRQS + TEGRA_IRQS_PER_ICTLR)

(***************************************************************************)
(* C7: every register write of tegra_ictlr_set_interrupt_enable, called on *)
(* its own or through a routing hook, goes to an instance index            *)
(* (irq - NR_LOCAL_IRQS) div TEGRA_IRQS_PER_ICTLR that lies in             *)
(* 0..TEGRA_ICTLR_COUNT-1; an irq whose index is TEGRA_ICTLR_COUNT or more *)
(* ends in the failed assertion and no register is written.                *)
(***************************************************************************)
ReachesSetEnable(call) ==
    call.op = "set_interrupt_enable" \/ Policy(call) # "none"

C7_InstanceIndexInRange ==
    (last.op \in RoutingOps \cup {"set_interrupt_enable"})
        => /\ \A j \in 1 .. Len(last.ops) :
                last.ops[j].kind = "writel"
                    => /\ last.irq >= NR_LOCAL_IRQS
                       /\ LineInstance(last.irq) \in Instances
                       /\ last.ops[j].off \div TEGRA_ICTLR_SIZE
                            = LineInstance(last.irq)
           /\ stray = {}
           /\ (/\ ReachesSetEnable(last)
               /\ last.irq >= NR_LOCAL_IRQS
               /\ LineInstance(last.irq) >= TEGRA_ICTLR_COUNT)
                => /\ last.fatal
                   /\ "assert_failed" \in Kinds(last.ops)
                   /\ RegistersUntouched

\* the first number past the last instance, handed to set_enable directly
\* while lines are enabled
C7_Witness ==
    /\ last.op = "set_interrupt_enable"
    /\ last.irq = IrqLimit
    /\ last.enabled
    /\ last.pre_base = MAPPED
    /\ last.fatal
    /\ LineEnabled(ier, IrqLimit - 1)

C9_GicBeforeIctlr ==
    last.op \in RoutingOps
        => \A j \in 1 .. Len(last.ops) :
              last.ops[j].kind = "writel"
                  => \E i \in 1 .. (j - 1) :
                        last.ops[i].kind = "gic_" \o last.op

\* a routing to Xen that wrote the ictlr
C9_Witness ==
    /\ last.op = "route_irq_to_xen"
    /\ last.irq = 50
    /\ Len(last.ops) = 2
    /\ last.ops[1].kind = "gic_route_irq_to_xen"
    /\ last.ops[2].kind = "writel"

(***************************************************************************)
(* C10: two calls of tegra_ictlr_set_interrupt_enable for different bits   *)
(* of one instance, overlapping on two cores: however their steps          *)
(* interleave, when both are done each of the two bits has the value its   *)
(* own call asked for and every other bit is as before, each call having   *)
(* made one register write.                                                *)
(***************************************************************************)
BothDone == \A c \in Cores : cpu[c].pc = "done"

DifferentBitsSameInstance ==
    /\ cpu["cpu0"].irq # cpu["cpu1"].irq
    /\ LineInstance(cpu["cpu0"].irq) = LineInstance(cpu["cpu1"].irq)

C10_DifferentBitsDoNotInterfere ==
    (BothDone /\ DifferentBitsSameInstance)
        => /\ \A c \in Cores :
                /\ LineEnabled(ier, cpu[c].irq) <=> cpu[c].enabled
                /\ cpu[c].issued = 1
           /\ \A i \in Instances : \A b \in RegBits :
                (\A c \in Cores : LineOf(i, b) # cpu[c].irq)
                    => (b \in ier[i] <=> b \in last.pre_ier[i])
           /\ iep_class = last.pre_cls
           /\ stray = {}

\* bit 0 of instance 0 enabled by one core while bit 18 is disabled by the
\* other, from a state that had it the other way round
C10_Witness ==
    /\ BothDone
    /\ cpu["cpu0"].irq = NR_LOCAL_IRQS /\ cpu["cpu0"].enabled
    /\ cpu["cpu1"].irq = 50 /\ ~ cpu["cpu1"].enabled
    /\ last.pre_ier[0] = {18}
    /\ ier[0] = {0}

(***************************************************************************)
(* C11: two routing calls overlapping on two cores, one asking to enable   *)
(* and one to disable the same line, have no determined outcome: nothing   *)
(* in the code orders the two register writes (while both are pending      *)
(* either may go next), and when both calls are done the bit has the value *)
(* asked for by whichever write came last.                                 *)
(***************************************************************************)
OpposedOnOneLine ==
    /\ cpu["cpu0"].irq = cpu["cpu1"].irq
    /\ {Policy(cpu["cpu0"]), Policy(cpu["cpu1"])} = {"set", "clear"}

C11_SameBitRaceUndetermined ==
    /\ (OpposedOnOneLine /\ \A c \in Cores : cpu[c].pc = "bus")
         => \A c \in Cores : ENABLED CpuBus(c)
    /\ (OpposedOnOneLine /\ BothDone)
         => /\ \E c \in Cores : cpu[c].wrote_last
            /\ \A c \in Cores :
                 cpu[c].wrote_last
                    => (LineEnabled(ier, cpu[c].irq) <=> Policy(cpu[c]) = "set")

\* line 50 routed to Xen on one core and to the hardware domain on the
\* other: both calls have returned and the line is disabled, the write of
\* the routing to Xen having come first
C11_Witness ==
    /\ BothDone
    /\ cpu["cpu0"].op = "route_irq_to_xen" /\ cpu["cpu0"].irq = 50
    /\ cpu["cpu1"].op = "route_irq_to_guest" /\ cpu["cpu1"].irq = 50
    /\ cpu["cpu1"].d = hardware_domain /\ cpu["cpu1"].gic_rc = 0
    /\ cpu["cpu1"].wrote_last
    /\ ~ LineEnabled(ier, 50)
    /\ LineEnabled(last.pre_ier, 50)

\* the other outcome of the same two calls: the line is enabled
C11_WitnessEnabled ==
    /\ BothDone
    /\ cpu["cpu0"].op = "route_irq_to_xen" /\ cpu["cpu0"].irq = 50
    /\ cpu["cpu1"].op = "route_irq_to_guest" /\ cpu["cpu1"].irq = 50
    /\ cpu["cpu1"].d = hardware_domain /\ cpu["cpu1"].gic_rc = 0
    /\ cpu["cpu0"].wrote_last
    /\ LineEnabled(ier, 50)
    /\ LineEnabled(last.pre_ier, 50)

(***************************************************************************)
(* C12: tegra_irq_is_routable answers true exactly when the controller is  *)
(* the registered primary interrupt controller or is compatible with       *)
(* "nvidia,tegra124-ictlr" or "nvidia,tegra210-ictlr"; the answer is the   *)
(* same with the list of strings in the other order, and the call changes  *)
(* no register, calls neither the GIC nor any error path.                  *)
(***************************************************************************)
Reverse(q) == [ k \in 1 .. Len(q) |-> q[Len(q) + 1 - k] ]

CompatibleWithSupported(node) ==
    \E k \in 1 .. Len(node.compatible) :
        node.compatible[k] \in {"nvidia,tegra124-ictlr", "nvidia,tegra210-ictlr"}

C12_RoutableClassification ==
    last.op = "irq_is_routable"
        => /\ last.routable <=>
                (\/ last.controller.name = dt_interrupt_controller
                 \/ CompatibleWithSupported(last.controller))
           /\ tegra_irq_belongs_to_ictlr([ controller |-> last.controller ])
                = CompatLoop(Reverse(tegra_interrupt_compat), last.controller, 1)
           /\ last.ops = << >>
           /\ ~ last.fatal
           /\ ~ halted
           /\ RegistersUntouched
           /\ tegra_ictlr_base = last.pre_base

\* a Tegra X1 legacy controller, matched by the second string of the list,
\* classified while lines are enabled
C12_Witness ==
    /\ last.op = "irq_is_routable"
    /\ last.controller.name = "lic-x1"
    /\ last.routable
    /\ LineEnabled(ier, 50)

\* a controller that is neither the primary one nor a supported one
C12_WitnessNotRoutable ==
    /\ last.op = "irq_is_routable"
    /\ last.controller.name = "gic2"
    /\ ~ last.routable

(***************************************************************************)
(* C13: once the window is mapped, tegra_ictlr_set_interrupt_enable(irq,   *)
(* true) followed by (irq, false), for an in-range non-local irq, leaves   *)
(* the irq's bit clear and every other bit of every instance as it was     *)
(* before the two calls.                                                   *)
(***************************************************************************)
OtherBitsAsBefore(irq) ==
    \A i \in Instances : \A b \in RegBits :
        LineOf(i, b) # irq => (b \in ier[i] <=> b \in last.pre_ier[i])

C13_EnableThenDisable ==
    (/\ last.op = "set_interrupt_enable_twice"
     /\ last.enabled /\ ~ last.enabled2
     /\ InRange(last.irq)
     /\ last.pre_base # NULL)
        => /\ ~ last.fatal
           /\ LineEnabled(last.mid_ier, last.irq)
           /\ ~ LineEnabled(ier, last.irq)
           /\ OtherBitsAsBefore(last.irq)
           /\ iep_class = last.pre_cls
           /\ stray = {}

\* line 50 enabled then disabled while line 32, of the same instance, and
\* line 64 are enabled and line 50 was enabled before
C13_Witness ==
    /\ last.op = "set_interrupt_enable_twice"
    /\ last.enabled /\ ~ last.enabled2
    /\ last.irq = 50
    /\ last.pre_ier[0] = {0, 18}
    /\ ier[0] = {0}
    /\ ier[1] = {0}

(***************************************************************************)
(* C14: once the window is mapped, tegra_ictlr_set_interrupt_enable(irq,   *)
(* true) called twice in a row, for an in-range non-local irq, leaves the  *)
(* enable state the first call left, and each call writes to the set       *)
(* register of the irq's instance a mask with exactly one bit, the irq's.  *)
(***************************************************************************)
C14_EnableTwice ==
    (/\ last.op = "set_interrupt_enable_twice"
     /\ last.enabled /\ last.enabled2
     /\ InRange(last.irq)
     /\ last.pre_base # NULL)
        => /\ ~ last.fatal
           /\ ier = last.mid_ier
           /\ LineEnabled(ier, last.irq)
           /\ OtherBitsAsBefore(last.irq)
           /\ Len(last.ops) = 2
           /\ \A j \in 1 .. Len(last.ops) :
                /\ last.ops[j].kind = "writel"
                /\ Cardinality(last.ops[j].val) = 1
                /\ last.ops[j].val = {LineBit(last.irq)}
                /\ last.ops[j].off =
                     TEGRA_ICTLR_SIZE * LineInstance(last.irq)
                        + TEGRA_ICTLR_CPU_IER_SET

\* line 50 enabled twice while it was disabled and line 32 enabled
C14_Witness ==
    /\ last.op = "set_interrupt_enable_twice"
    /\ last.enabled /\ last.enabled2
    /\ last.irq = 50
    /\ last.pre_ier[0] = {0}
    /\ last.mid_ier[0] = {0, 18}
    /\ ier[0] = {0, 18}

(***************************************************************************)
(* C15: tegra_ictlr_set_interrupt_enable writes its register only when the *)
(* window is mapped and the irq is at or above NR_LOCAL_IRQS.  Called      *)
(* before initialization (directly or through a non-local routing call),   *)
(* or directly with a local irq, for which the unsigned irq -              *)
(* NR_LOCAL_IRQS wraps around to an instance index far past the last       *)
(* instance, it ends in the failed assertion: no register is written and   *)
(* the call does not return.                                               *)
(***************************************************************************)
C15_PreconditionsAssertedFatally ==
    ReachesSetEnable(last)
        => /\ "writel" \in Kinds(last.ops)
                => (last.pre_base # NULL /\ last.irq >= NR_LOCAL_IRQS)
           /\ (last.pre_base = NULL \/ last.irq < NR_LOCAL_IRQS)
                => /\ last.fatal
                   /\ halted
                   /\ "assert_failed" \in Kinds(last.ops)
                   /\ "printk" \notin Kinds(last.ops)
                   /\ RegistersUntouched
           /\ last.irq < NR_LOCAL_IRQS
                => /\ USub(last.irq, NR_LOCAL_IRQS)
                        = UINT_MOD - NR_LOCAL_IRQS + last.irq
                   /\ USub(last.irq, NR_LOCAL_IRQS) \div TEGRA_IRQS_PER_ICTLR
                        >= TEGRA_ICTLR_COUNT

\* a local irq handed to set_enable directly, after initialization, while
\* lines are enabled
C15_Witness ==
    /\ last.op = "set_interrupt_enable"
    /\ last.irq = 10
    /\ last.pre_base = MAPPED
    /\ last.fatal
    /\ LineEnabled(ier, 50)

\* a non-local routing call made before initialization
C15_WitnessBeforeInit ==
    /\ last.op = "route_irq_to_xen"
    /\ last.irq = 50
    /\ last.pre_base = NULL
    /\ last.fatal
    /\ ier = AllOnesBank

(***************************************************************************)
(* C16: every register write of initialization and of                      *)
(* tegra_ictlr_set_interrupt_enable lands inside the mapped window: its    *)
(* four bytes lie at an offset in [0, TEGRA_ICTLR_SIZE *                   *)
(* TEGRA_ICTLR_COUNT) from tegra_ictlr_base.                               *)
(***************************************************************************)
C16_WritesInsideWindow ==
    /\ stray = {}
    /\ \A j \in 1 .. Len(last.ops) :
         last.ops[j].kind = "writel"
            => /\ last.ops[j].off >= 0
               /\ last.ops[j].off + 4 <= TEGRA_ICTLR_SIZE * TEGRA_ICTLR_COUNT
               /\ tegra_ictlr_base # NULL

\* the highest write: the last line of the last instance being enabled
C16_Witness ==
    /\ last.op = "set_interrupt_enable"
    /\ last.irq = IrqLimit - 1
    /\ Len(last.ops) = 1
    /\ last.ops[1].kind = "writel"
    /\ last.ops[1].off =
         TEGRA_ICTLR_SIZE * (TEGRA_ICTLR_COUNT - 1) + TEGRA_ICTLR_CPU_IER_SET

(***************************************************************************)
(* C17: tegra_ictlr_set_interrupt_enable(irq, enabled) applies the enable  *)
(* to the irq and marks the irq as a normal interrupt: after a call that   *)
(* returns, the irq's enable bit is as asked and its class bit is 0,       *)
(* whatever the class register held before.                                *)
(***************************************************************************)
C17_SetEnableMarksNormal ==
    (last.op = "set_interrupt_enable" /\ ~ last.fatal)
        => /\ LineEnabled(ier, last.irq) <=> last.enabled
           /\ LineBit(last.irq) \notin iep_class[LineInstance(last.irq)]

(***************************************************************************)
(* C18: after initialization, under any sequence of routing calls made one *)
(* at a time, the enable bit of every line behind the ictlr is what the    *)
(* latest routing call for that line that reached the ictlr step asked     *)
(* for: set after tegra_route_irq_to_xen and after a successful routing to *)
(* a domain other than the hardware domain, clear after a successful       *)
(* routing to the hardware domain, and clear when there was no such call.  *)
(***************************************************************************)
C18_LastRoutingCallWins ==
    tegra_ictlr_base # NULL
        => \A l \in Lines :
              LineEnabled(ier, l) <=> line_policy.of[l] = "set"

\* line 50, enabled by an earlier call, was then routed to the hardware
\* domain and is disabled; line 64 is still enabled; a failed binding of
\* line 50 to a guest came last and changed nothing
C18_Witness ==
    /\ tegra_ictlr_base # NULL
    /\ 50 \in requested
    /\ line_policy.of[50] = "clear"
    /\ ~ LineEnabled(ier, 50)
    /\ line_policy.of[NR_LOCAL_IRQS + TEGRA_IRQS_PER_ICTLR] = "set"
    /\ last.op = "route_irq_to_guest"
    /\ last.irq = 50
    /\ last.d = "domU1"
    /\ last.gic_rc # 0

(***************************************************************************)
(* C19: the routing hooks and tegra_ictlr_set_interrupt_enable write only  *)
(* enable-set and enable-clear registers: they leave the class register of *)
(* every instance as it was, so that after initialization every line of    *)
(* every instance stays classed normal.                                    *)
(***************************************************************************)
EnableRegisters == { TEGRA_ICTLR_CPU_IER_SET, TEGRA_ICTLR_CPU_IER_CLR }

====
